---- MODULE Spec2Model ----
(***************************************************************************)
(* A model of the immutable merkle-patricia trie (package itrie): the node *)
(* graph as a heap of Short and Full nodes, the transaction operations     *)
(* Lookup / Insert / Delete, the epoch-tagged copy-on-write discipline,    *)
(* the hash-and-emit commit and the two-level Trie.Commit driver; and a    *)
(* model of the SAMUEL module of the rootchain package: its event loop,    *)
(* SaveProgress and Start.                                                 *)
(***************************************************************************)
EXTENDS Integers, Sequences, FiniteSets, TLC

VARIABLES
    heap,       \* the Short and Full nodes in memory, by address
    tries,      \* committed Trie objects: <<[root, epoch], ...>>
    txn,        \* the transaction in flight: [root, epoch, batch]
    storage,    \* the backing store: the set of hashes it holds an entry for
    batches,    \* the write batches created so far: <<[puts, writes], ...>>
    model,      \* ghost: the key/value map the transaction should hold
    hist,       \* ghost: what has happened to the transaction so far
    cs,         \* Trie.Commit in progress: its position and locals
    rd,         \* a Trie.Get in progress on another thread: its position
    sam         \* the SAMUEL module and the modules it is made with

vars == <<heap, tries, txn, storage, batches, model, hist, cs, rd, sam>>

(***************************************************************************)
(* Nibble keys                                                             *)
(***************************************************************************)

\* the terminator nibble; as an edge index it selects a FullNode's value
Terminator == 16

RECURSIVE keybytesToHex(_)
\* bytes -> nibbles (high, low per byte), closed by the terminator nibble
keybytesToHex(key) ==
    IF key = <<>> THEN <<Terminator>>
    ELSE <<Head(key) \div 16, Head(key) % 16>> \o keybytesToHex(Tail(key))

RECURSIVE prefixLenShort(_, _)
\* mutant: the comparison stops one position early
prefixLenShort(k1, k2) ==
    IF Len(k1) <= 1 \/ Len(k2) <= 1 THEN 0
    ELSE IF Head(k1) # Head(k2) THEN 0
    ELSE 1 + prefixLenShort(Tail(k1), Tail(k2))

RECURSIVE prefixLen(_, _)
\* the length of the longest common prefix of k1 and k2
prefixLen(k1, k2) ==
    IF k1 = <<>> \/ k2 = <<>> THEN 0
    ELSE IF Head(k1) # Head(k2) THEN 0
    ELSE 1 + prefixLen(Tail(k1), Tail(k2))

\* mutant: the two parts in the wrong order
concatSwapped(a, b) == b \o a

concat(a, b) == a \o b

\* Go's s[n:] (n counted from 0)
From(s, n) == SubSeq(s, n + 1, Len(s))

\* Go's s[:n]
Upto(s, n) == SubSeq(s, 1, n)

(***************************************************************************)
(* Node model.  A node reference is nil, a ValueNode (never mutated, so    *)
(* held by value) or the address of a ShortNode or FullNode in the heap.   *)
(***************************************************************************)

\* an epoch is a uint32, held as its two 16-bit halves
Half == 65536

Epoch(n) == [hi |-> (n \div Half) % Half, lo |-> n % Half]

\* epoch + 1 in uint32 arithmetic
NextEpoch(e) ==
    IF e.lo + 1 < Half THEN [e EXCEPT !.lo = @ + 1]
    ELSE [hi |-> (e.hi + 1) % Half, lo |-> 0]

Nil == [type |-> "nil"]

ValueNode(hash, buf) == [type |-> "value", hash |-> hash, buf |-> buf]

Ptr(a) == [type |-> "ptr", addr |-> a]

\* the empty hash cache of a ShortNode or FullNode (len(c.hash) == 0)
NoHash == <<>>

ShortNode(key, child) ==
    [type |-> "short", hash |-> NoHash, key |-> key, child |-> child]

NoEdges == [i \in 1..17 |-> Nil]

FullNode(epoch, edges) ==
    [type |-> "full", hash |-> NoHash, epoch |-> epoch, edges |-> edges]

IsPtr(n) == n.type = "ptr"

IsShort(H, n) == IsPtr(n) /\ H[n.addr].type = "short"

IsFull(H, n) == IsPtr(n) /\ H[n.addr].type = "full"

\* edge idx of a FullNode: children[idx] for idx < 16, value for idx = 16
getEdge(f, idx) == f.edges[idx + 1]

\* mutant: the value slot is not written
setEdgeNoValue(f, idx, e) ==
    IF idx = 16 THEN f ELSE [f EXCEPT !.edges[idx + 1] = e]

setEdge(f, idx, e) == [f EXCEPT !.edges[idx + 1] = e]

replaceEdge(f, idx, e) == [f EXCEPT !.edges[idx + 1] = e]

\* a new node at a fresh address: the heap with it, and the reference to it
Alloc(H, node) == [h |-> Append(H, node), n |-> Ptr(Len(H) + 1)]

(***************************************************************************)
(* Byte strings, hashes and the canonical node encoding.  A byte string is *)
(* raw bytes, a 32-byte hash (held as its preimage: the hash function is   *)
(* taken to be collision-free) or a marshalled account record.             *)
(***************************************************************************)

Raw(bytes) == [kind |-> "raw", bytes |-> bytes]

\* Keccak-256 of the encoding enc
hashit(enc) == [kind |-> "hash", of |-> enc]

\* the length in bytes of a hash
HashLen == 32

\* the byte string item of the length-prefixed encoding
EBytes(buf) == [e |-> "bytes", buf |-> buf]

\* the encoding of an empty byte string: an empty slot
ENull == EBytes(Raw(<<>>))

EShort(key, child) == [e |-> "short", key |-> key, child |-> child]

EFull(slots) == [e |-> "full", slots |-> slots]

\* the length of the length prefix of a payload of n bytes (n < 65536)
RlpHeader(n) == IF n <= 55 THEN 1 ELSE IF n < 256 THEN 2 ELSE 3

\* the encoded length of a byte string of n bytes whose first byte is b
RlpBytesLen(n, b) == IF n = 1 /\ b < 128 THEN 1 ELSE RlpHeader(n) + n

\* nonce, balance (one byte each), storage root and code hash, as a list
AccountLen == LET p == 1 + 1 + (1 + HashLen) + (1 + HashLen) IN RlpHeader(p) + p

BufLen(buf) ==
    CASE buf.kind = "raw" -> Len(buf.bytes)
      [] buf.kind = "hash" -> HashLen
      [] buf.kind = "account" -> AccountLen

BufFirst(buf) ==
    IF buf.kind = "raw" /\ buf.bytes # <<>> THEN buf.bytes[1] ELSE 255

\* the slots of a FullNode (or of its encoding) that are not x
Others(slots, x) == {i \in 1..17 : slots[i] # x}

Least(S) == CHOOSE i \in S : \A j \in S : i <= j

RECURSIVE SumLen(_, _)
RECURSIVE RlpLen(_)
\* the length in bytes of the encoding of item
RlpLen(item) ==
    CASE item.e = "bytes" -> RlpBytesLen(BufLen(item.buf), BufFirst(item.buf))
      [] item.e = "short" ->
            LET p == RlpBytesLen(Len(item.key), item.key[1]) + RlpLen(item.child)
            IN  RlpHeader(p) + p
      [] item.e = "full" ->
            LET full == Others(item.slots, ENull)
                p == (17 - Cardinality(full)) * RlpLen(ENull)
                     + SumLen(item.slots, full)
            IN  RlpHeader(p) + p

\* the encoded length of the slots S, together
SumLen(slots, S) ==
    IF S = {} THEN 0
    ELSE RlpLen(slots[Least(S)]) + SumLen(slots, S \ {Least(S)})

\* a node's encoding as it stands in its parent's: inlined below 32 bytes
InlineLimit == 32

RECURSIVE Pack(_)
\* nibbles, two per byte
Pack(hex) ==
    IF hex = <<>> THEN <<>>
    ELSE <<16 * hex[1] + hex[2]>> \o Pack(From(hex, 2))

RECURSIVE Unpack(_)
Unpack(bytes) ==
    IF bytes = <<>> THEN <<>>
    ELSE <<Head(bytes) \div 16, Head(bytes) % 16>> \o Unpack(Tail(bytes))

\* hex-prefix encoding: first nibble = 2 * leaf + odd, then the nibbles
hexToCompact(key) ==
    LET leaf == key # <<>> /\ key[Len(key)] = Terminator
        hex  == IF leaf THEN Upto(key, Len(key) - 1) ELSE key
        odd  == Len(hex) % 2 = 1
        flag == (IF leaf THEN 32 ELSE 0) + (IF odd THEN 16 + hex[1] ELSE 0)
    IN  <<flag>> \o Pack(IF odd THEN Tail(hex) ELSE hex)

compactToHex(bytes) ==
    LET flag == bytes[1] \div 16
        leaf == flag \div 2 = 1
        odd  == flag % 2 = 1
    IN  (IF odd THEN <<bytes[1] % 16>> ELSE <<>>)
        \o Unpack(Tail(bytes))
        \o (IF leaf THEN <<Terminator>> ELSE <<>>)

(***************************************************************************)
(* Resolution of a stored node against the backing store                   *)
(***************************************************************************)

\* x := e; F(x): the result of a call, named once and used by what follows
Bind(x, F(_)) == F(x)

RECURSIVE DecodeNode(_, _)
RECURSIVE DecodeEdges(_, _, _, _)
\* a child or value position of an encoded node, as a node reference
DecodeRef(H, item, isValue) ==
    IF item.e = "bytes"
    THEN [h |-> H,
          n |-> IF BufLen(item.buf) = 0 THEN Nil
                ELSE ValueNode(~isValue, item.buf)]
    ELSE DecodeNode(H, item)

\* the node an encoding stands for, built in the heap
DecodeNode(H, item) ==
    IF item.e = "short"
    THEN Bind(compactToHex(item.key), LAMBDA key :
         Bind(DecodeRef(H, item.child, key[Len(key)] = Terminator), LAMBDA c :
              Alloc(c.h, ShortNode(key, c.n))))
    ELSE Bind(DecodeEdges(H, item.slots, Others(item.slots, ENull), NoEdges),
              LAMBDA d : Alloc(d.h, FullNode(Epoch(0), d.edges)))

\* the slots S decoded in turn, the empty ones left nil
DecodeEdges(H, slots, S, edges) ==
    IF S = {} THEN [h |-> H, edges |-> edges]
    ELSE Bind(Least(S), LAMBDA i :
         Bind(DecodeRef(H, slots[i], i = 17), LAMBDA c :
              IF c.n = Nil THEN DecodeEdges(H, slots, S \ {i}, edges)
              ELSE DecodeEdges(c.h, slots, S \ {i}, [edges EXCEPT ![i] = c.n])))

\* GetNode(root, storage): (node, ok, err)
GetNode(H, hash, st) ==
    IF st.fault THEN [h |-> H, n |-> Nil, ok |-> FALSE, err |-> TRUE]
    ELSE IF hash \notin st.has THEN [h |-> H, n |-> Nil, ok |-> FALSE, err |-> FALSE]
    ELSE Bind(DecodeNode(H, hash.of), LAMBDA d :
              [h |-> d.h, n |-> d.n, ok |-> TRUE, err |-> FALSE])

(***************************************************************************)
(* Txn.lookup                                                              *)
(***************************************************************************)

\* Lookup's nil result
NoValue == [kind |-> "none"]

LookupResult(v, absent, panic) == [v |-> v, absent |-> absent, panic |-> panic]

RECURSIVE lookup(_, _, _, _)
lookup(H, node, key, st) ==
    CASE node.type = "nil" -> LookupResult(NoValue, FALSE, FALSE)
      [] node.type = "value" ->
            IF node.hash
            THEN Bind(GetNode(H, node.buf, st), LAMBDA g :
                     IF g.err THEN LookupResult(NoValue, FALSE, TRUE)
                     ELSE IF ~g.ok THEN LookupResult(NoValue, TRUE, FALSE)
                     ELSE lookup(g.h, g.n, key, st))
            ELSE IF key = <<>> THEN LookupResult(node.buf, FALSE, FALSE)
                 ELSE LookupResult(NoValue, FALSE, FALSE)
      [] node.type = "ptr" ->
            LET n == H[node.addr] IN
            IF n.type = "short"
            THEN LET plen == Len(n.key) IN
                 IF plen > Len(key) \/ Upto(key, plen) # n.key
                 THEN LookupResult(NoValue, FALSE, FALSE)
                 ELSE lookup(H, n.child, From(key, plen), st)
            ELSE IF key = <<>>
                 THEN lookup(H, getEdge(n, Terminator), key, st)
                 ELSE lookup(H, getEdge(n, key[1]), Tail(key), st)

\* one call of Txn.lookup, up to the call it ends with: the result (done),
\* or the node and key of the call to come
LookupStep(H, done, v, node, key, panic) ==
    [h |-> H, done |-> done, v |-> v, node |-> node, rest |-> key, panic |-> panic]

lookupStep(H, node, key, st) ==
    CASE node.type = "nil" -> LookupStep(H, TRUE, NoValue, Nil, <<>>, FALSE)
      [] node.type = "value" ->
            IF node.hash
            THEN Bind(GetNode(H, node.buf, st), LAMBDA g :
                     IF g.err THEN LookupStep(H, TRUE, NoValue, Nil, <<>>, TRUE)
                     ELSE IF ~g.ok THEN LookupStep(H, TRUE, NoValue, Nil, <<>>, FALSE)
                     ELSE LookupStep(g.h, FALSE, NoValue, g.n, key, FALSE))
            ELSE IF key = <<>> THEN LookupStep(H, TRUE, node.buf, Nil, <<>>, FALSE)
                 ELSE LookupStep(H, TRUE, NoValue, Nil, <<>>, FALSE)
      [] node.type = "ptr" ->
            LET n == H[node.addr] IN
            IF n.type = "short"
            THEN LET plen == Len(n.key) IN
                 IF plen > Len(key) \/ Upto(key, plen) # n.key
                 THEN LookupStep(H, TRUE, NoValue, Nil, <<>>, FALSE)
                 ELSE LookupStep(H, FALSE, NoValue, n.child, From(key, plen), FALSE)
            ELSE IF key = <<>>
                 THEN LookupStep(H, FALSE, NoValue, getEdge(n, Terminator), key, FALSE)
                 ELSE LookupStep(H, FALSE, NoValue, getEdge(n, key[1]), Tail(key), FALSE)

\* Txn.lookup from its first call to its last: the heap it leaves and the
\* result
RECURSIVE lookupCalls(_, _, _, _)
lookupCalls(H, node, key, st) ==
    Bind(lookupStep(H, node, key, st), LAMBDA r :
         IF r.done THEN r ELSE lookupCalls(r.h, r.node, r.rest, st))

(***************************************************************************)
(* Txn.writeNode and Txn.insert                                            *)
(***************************************************************************)

\* mutant: the node is written to whatever its epoch
writeNodeInPlace(H, addr, epoch) == [h |-> H, n |-> Ptr(addr)]

\* the FullNode to write to: the node itself when it is of the transaction's
\* epoch, else a copy of it tagged with the transaction's epoch
writeNode(H, addr, epoch) ==
    IF epoch = H[addr].epoch THEN [h |-> H, n |-> Ptr(addr)]
    ELSE Alloc(H, FullNode(epoch, H[addr].edges))

InsertResult(H, n, absent, panic) ==
    [h |-> H, n |-> n, absent |-> absent, panic |-> panic]

RECURSIVE insert(_, _, _, _, _)
insert(H, node, search, value, t) ==
    CASE node.type = "nil" ->
            IF search = <<>>
            THEN InsertResult(H, ValueNode(FALSE, value), FALSE, FALSE)
            ELSE LET a == Alloc(H, ShortNode(search, ValueNode(FALSE, value)))
                 IN  InsertResult(a.h, a.n, FALSE, FALSE)
      [] node.type = "value" ->
            IF node.hash
            THEN Bind(GetNode(H, node.buf, t.st), LAMBDA g :
                     IF g.err THEN InsertResult(H, Nil, FALSE, TRUE)
                     ELSE IF ~g.ok THEN InsertResult(H, Nil, TRUE, FALSE)
                     ELSE insert(g.h, g.n, search, value, t))
            ELSE IF search = <<>>
                 THEN InsertResult(H, ValueNode(FALSE, value), FALSE, FALSE)
                 ELSE LET a == Alloc(H, FullNode(t.epoch, [NoEdges EXCEPT ![17] = node]))
                      IN  insert(a.h, a.n, search, value, t)
      [] node.type = "ptr" /\ H[node.addr].type = "short" ->
            LET n    == H[node.addr]
                plen == prefixLen(search, n.key)
            IN  IF plen = Len(n.key)
                THEN \* keep this node as is and insert to child
                     Bind(insert(H, n.child, From(search, plen), value, t), LAMBDA c :
                     Bind(Alloc(c.h, ShortNode(n.key, c.n)), LAMBDA a :
                          IF c.panic THEN c
                          ELSE InsertResult(a.h, a.n, c.absent, FALSE)))
                ELSE \* introduce a new branch
                     Bind(IF Len(n.key) > plen + 1
                          THEN Alloc(H, ShortNode(From(n.key, plen + 1), n.child))
                          ELSE [h |-> H, n |-> n.child], LAMBDA e :
                     Bind(Alloc(e.h, setEdge(FullNode(t.epoch, NoEdges),
                                             n.key[plen + 1], e.n)), LAMBDA b :
                     Bind(insert(b.h, b.n, From(search, plen), value, t), LAMBDA c :
                     Bind(Alloc(c.h, ShortNode(Upto(search, plen), c.n)), LAMBDA a :
                          IF c.panic \/ plen = 0 THEN c
                          ELSE InsertResult(a.h, a.n, c.absent, FALSE)))))
      [] node.type = "ptr" /\ H[node.addr].type = "full" ->
            LET n == H[node.addr] IN
            Bind(writeNode(H, node.addr, t.epoch), LAMBDA b :
                IF search = <<>>
                THEN Bind(insert(b.h, getEdge(b.h[b.n.addr], Terminator),
                                 <<>>, value, t), LAMBDA c :
                          IF c.panic THEN c
                          ELSE InsertResult(
                                 [c.h EXCEPT ![b.n.addr] = setEdge(@, Terminator, c.n)],
                                 b.n, c.absent, FALSE))
                ELSE LET k == search[1]
                         child == getEdge(n, k)
                     IN  Bind(insert(b.h, child, Tail(search), value, t), LAMBDA c :
                          IF c.panic THEN c
                          ELSE InsertResult(
                                 [c.h EXCEPT ![b.n.addr] =
                                     IF child = Nil THEN setEdge(@, k, c.n)
                                     ELSE replaceEdge(@, k, c.n)],
                                 b.n, c.absent, FALSE)))

(***************************************************************************)
(* Txn.delete                                                              *)
(***************************************************************************)

DeleteResult(H, n, ok, absent, panic) ==
    [h |-> H, n |-> n, ok |-> ok, absent |-> absent, panic |-> panic]

\* n.hash = n.hash[:0]
ResetHash(H, addr) == [H EXCEPT ![addr].hash = NoHash]

\* mutant: one child is enough for notEmpty
ScanChildrenOne(f) ==
    LET some == {edge \in 0..15 : getEdge(f, edge) # Nil}
    IN  [indx |-> IF some = {} THEN -1 ELSE Least(some),
         notEmpty |-> Cardinality(some) >= 1]

\* the scan of a FullNode's children: indx is the first child that is not
\* nil (-1: none), notEmpty whether there is a second one
ScanChildren(f) ==
    LET some == {edge \in 0..15 : getEdge(f, edge) # Nil}
    IN  [indx |-> IF some = {} THEN -1 ELSE Least(some),
         notEmpty |-> Cardinality(some) >= 2]

\* mutant: the FullNode is returned as it is, however few slots it has left
CollapseNever(H, addr, absent, t) == DeleteResult(H, Ptr(addr), TRUE, absent, FALSE)

\* what is left of a FullNode at addr after one of its edges was deleted
Collapse(H, addr, absent, t) ==
    LET n    == H[addr]
        scan == ScanChildren(n)
        indx == scan.indx
        notEmpty == scan.notEmpty \/ (indx # -1 /\ getEdge(n, Terminator) # Nil)
    IN  IF notEmpty
        THEN \* the full node still has some other values
             DeleteResult(H, Ptr(addr), TRUE, absent, FALSE)
        ELSE IF indx = -1
        THEN IF getEdge(n, Terminator) = Nil
             THEN DeleteResult(H, Nil, TRUE, absent, FALSE)
             ELSE LET a == Alloc(H, ShortNode(<<Terminator>>, getEdge(n, Terminator)))
                  IN  DeleteResult(a.h, a.n, TRUE, absent, FALSE)
        ELSE \* only one value left at indx
             LET nc == getEdge(n, indx) IN
             Bind(IF nc.type = "value" /\ nc.hash
                  THEN GetNode(H, nc.buf, t.st)
                  ELSE [h |-> H, n |-> nc, ok |-> TRUE, err |-> FALSE], LAMBDA g :
                 IF g.err THEN DeleteResult(H, Nil, FALSE, absent, TRUE)
                 ELSE IF ~g.ok THEN DeleteResult(H, Nil, FALSE, TRUE, FALSE)
                 ELSE IF IsShort(g.h, g.n)
                 THEN \* compress the full node with the short in children
                      DeleteResult(
                        [g.h EXCEPT ![g.n.addr].key = concat(<<indx>>, @),
                                    ![g.n.addr].hash = NoHash],
                        g.n, TRUE, absent, FALSE)
                 ELSE LET a == Alloc(g.h, ShortNode(<<indx>>, g.n))
                      IN  DeleteResult(a.h, a.n, TRUE, absent, FALSE))

RECURSIVE delete(_, _, _, _)
delete(H, node, search, t) ==
    CASE node.type = "nil" -> DeleteResult(H, Nil, FALSE, FALSE, FALSE)
      [] node.type = "ptr" /\ H[node.addr].type = "short" ->
            LET n    == H[node.addr]
                H1   == ResetHash(H, node.addr)
                plen == prefixLen(search, n.key)
            IN  IF plen = Len(search) THEN DeleteResult(H1, Nil, TRUE, FALSE, FALSE)
                ELSE IF plen = 0 THEN DeleteResult(H1, Nil, FALSE, FALSE, FALSE)
                ELSE Bind(delete(H1, n.child, From(search, plen), t), LAMBDA c :
                     IF c.panic THEN c
                     ELSE IF ~c.ok THEN DeleteResult(c.h, Nil, FALSE, c.absent, FALSE)
                     ELSE IF c.n = Nil THEN DeleteResult(c.h, Nil, TRUE, c.absent, FALSE)
                     ELSE IF IsShort(c.h, c.n)
                     THEN \* merge nodes
                          LET short == c.h[c.n.addr]
                              a == Alloc(c.h, ShortNode(concat(n.key, short.key),
                                                        short.child))
                          IN  DeleteResult(a.h, a.n, TRUE, c.absent, FALSE)
                     ELSE \* full node
                          DeleteResult([c.h EXCEPT ![node.addr].child = c.n],
                                       node, TRUE, c.absent, FALSE))
      [] node.type = "value" ->
            IF node.hash
            THEN Bind(GetNode(H, node.buf, t.st), LAMBDA g :
                     IF g.err THEN DeleteResult(H, Nil, FALSE, FALSE, TRUE)
                     ELSE IF ~g.ok THEN DeleteResult(H, Nil, FALSE, TRUE, FALSE)
                     ELSE delete(g.h, g.n, search, t))
            ELSE IF Len(search) # 0 THEN DeleteResult(H, Nil, FALSE, FALSE, FALSE)
                 ELSE DeleteResult(H, Nil, TRUE, FALSE, FALSE)
      [] node.type = "ptr" /\ H[node.addr].type = "full" ->
            LET n  == H[node.addr]
                H1 == ResetHash(H, node.addr)
            IN  IF search = <<>>
                THEN \* search[0] is out of range
                     DeleteResult(H1, Nil, FALSE, FALSE, TRUE)
                ELSE LET key == search[1] IN
                     Bind(delete(H1, getEdge(n, key), Tail(search), t), LAMBDA c :
                          IF c.panic THEN c
                          ELSE IF ~c.ok
                          THEN DeleteResult(c.h, Nil, FALSE, c.absent, FALSE)
                          ELSE Collapse([c.h EXCEPT ![node.addr] = setEdge(@, key, c.n)],
                                        node.addr, c.absent, t))

(***************************************************************************)
(* Txn.Hash: bottom-up encoding, hashing and emission into the batch       *)
(***************************************************************************)

\* the node as it stands in its parent's encoding: a cached hash as it is,
\* an encoding of 32 bytes or more as its hash, a shorter one inlined
RECURSIVE Item(_, _)
\* the canonical encoding of the Short or Full node at addr
Encoding(H, addr) ==
    LET n == H[addr] IN
    IF n.type = "short" THEN EShort(hexToCompact(n.key), Item(H, n.child))
    ELSE EFull([i \in 1..17 |-> Item(H, n.edges[i])])

Item(H, node) ==
    CASE node.type = "nil" -> ENull
      [] node.type = "value" -> EBytes(node.buf)
      [] node.type = "ptr" ->
            IF H[node.addr].hash # NoHash THEN EBytes(H[node.addr].hash)
            ELSE Bind(Encoding(H, node.addr), LAMBDA enc :
                      IF RlpLen(enc) < InlineLimit THEN enc
                      ELSE EBytes(hashit(enc)))

PtrRef(ref) == ref.type = "ptr"

\* the nodes below node that have no hash cached, met without passing a
\* node that has one: the nodes a hash computation encodes
RECURSIVE Dirty(_, _, _)
RECURSIVE DirtyAll(_, _, _)
Dirty(H, node, seen) ==
    IF node.type # "ptr" \/ node.addr \in seen \/ H[node.addr].hash # NoHash
    THEN seen
    ELSE LET n == H[node.addr]
         IN  DirtyAll(H, SelectSeq(IF n.type = "short" THEN <<n.child>> ELSE n.edges,
                                   PtrRef),
                      seen \cup {node.addr})

DirtyAll(H, refs, seen) ==
    IF refs = <<>> THEN seen
    ELSE Bind(Dirty(H, Head(refs), seen), LAMBDA s1 :
              IF Cardinality(s1) >= 0 THEN DirtyAll(H, Tail(refs), s1) ELSE s1)

\* bottom-up: every node without a cached hash is encoded from its children's
\* items; an encoding of 32 bytes or more is hashed, the hash cached on the
\* node and (hash, encoding) emitted.
\* [h: the heap with the hashes cached, item, puts: the hashes emitted]
hashNode(H, node) ==
    Bind({a \in Dirty(H, node, {}) : RlpLen(Encoding(H, a)) >= InlineLimit},
         LAMBDA long :
         Bind([a \in long |-> hashit(Encoding(H, a))], LAMBDA hashes :
              [h |-> [a \in 1..Len(H) |->
                        IF a \in long THEN [H[a] EXCEPT !.hash = hashes[a]]
                        ELSE H[a]],
               item |-> Item(H, node),
               puts |-> {hashes[a] : a \in long}]))

\* the root hash of the empty trie
emptyRoot == hashit(ENull)

\* Txn.Hash(): [h, root: the root hash, puts]
Hash(H, root) ==
    IF root = Nil THEN [h |-> H, root |-> emptyRoot, puts |-> {}]
    ELSE Bind(hashNode(H, root), LAMBDA r :
              [h |-> r.h, puts |-> r.puts,
               root |-> IF r.item.e = "bytes" THEN r.item.buf ELSE hashit(r.item)])

(***************************************************************************)
(* The heap up to addresses: only the nodes reachable from the roots, in   *)
(* the order a depth-first walk from the roots meets them                  *)
(***************************************************************************)

Index(order, a) == CHOOSE i \in 1..Len(order) : order[i] = a

Refs(n) == SelectSeq(IF n.type = "short" THEN <<n.child>> ELSE n.edges, PtrRef)

RECURSIVE Visit(_, _, _)
RECURSIVE VisitAll(_, _, _, _)
Visit(H, ref, order) ==
    IF ref.type # "ptr" \/ (\E i \in 1..Len(order) : order[i] = ref.addr)
    THEN order
    ELSE VisitAll(H, Refs(H[ref.addr]), 1, Append(order, ref.addr))

VisitAll(H, refs, i, order) ==
    IF i > Len(refs) THEN order
    ELSE Bind(Visit(H, refs[i], order), LAMBDA o1 :
              IF Len(o1) >= 0 THEN VisitAll(H, refs, i + 1, o1) ELSE o1)

Moved(order, ref) ==
    IF ref.type = "ptr" THEN Ptr(Index(order, ref.addr)) ELSE ref

MovedNode(order, n) ==
    IF n.type = "short" THEN [n EXCEPT !.child = Moved(order, @)]
    ELSE [n EXCEPT !.edges = [i \in 1..17 |-> Moved(order, @[i])]]

\* [h: the reachable heap, roots: the roots in it]
Normalise(H, roots) ==
    Bind(VisitAll(H, roots, 1, <<>>), LAMBDA order :
         [h |-> [i \in 1..Len(order) |-> MovedNode(order, H[order[i]])],
          roots |-> [i \in 1..Len(roots) |-> Moved(order, roots[i])]])

(***************************************************************************)
(* The operations of a transaction                                         *)
(***************************************************************************)

\* Trie.Txn()
Txn(t) == [root |-> t.root, epoch |-> NextEpoch(t.epoch),
           batch |-> 0, open |-> TRUE]

\* Txn.Commit()
Commit(tx) == [root |-> tx.root, epoch |-> tx.epoch]

Ctx(tx, st) == [epoch |-> tx.epoch, st |-> st]

\* Txn.Lookup(key)
Lookup(H, tx, key, st) == lookup(H, tx.root, keybytesToHex(key), st)

\* mutant: the value is put into the batch as it is inserted
InsertEmits(H, tx, key, value, st) ==
    Bind(insert(H, tx.root, keybytesToHex(key), value, Ctx(tx, st)), LAMBDA r :
         [h |-> r.h, root |-> IF r.n # Nil THEN r.n ELSE tx.root,
          puts |-> {hashit(EBytes(value))}, absent |-> r.absent, panic |-> r.panic])

\* Txn.Insert(key, value): the heap and root after it, and its Put calls
Insert(H, tx, key, value, st) ==
    Bind(insert(H, tx.root, keybytesToHex(key), value, Ctx(tx, st)), LAMBDA r :
         [h |-> r.h, root |-> IF r.n # Nil THEN r.n ELSE tx.root,
          puts |-> {}, absent |-> r.absent, panic |-> r.panic])

\* mutant: a nil root is not installed, as in Insert
DeleteKeepsRoot(H, tx, key, st) ==
    Bind(delete(H, tx.root, keybytesToHex(key), Ctx(tx, st)), LAMBDA r :
         [h |-> r.h, root |-> IF r.ok /\ r.n # Nil THEN r.n ELSE tx.root,
          puts |-> {}, absent |-> r.absent, panic |-> r.panic, ok |-> r.ok])

\* Txn.Delete(key)
Delete(H, tx, key, st) ==
    Bind(delete(H, tx.root, keybytesToHex(key), Ctx(tx, st)), LAMBDA r :
         [h |-> r.h, root |-> IF r.ok THEN r.n ELSE tx.root,
          puts |-> {}, absent |-> r.absent, panic |-> r.panic, ok |-> r.ok])

\* Trie.Get(k)
Get(H, t, k, st) == Lookup(H, Txn(t), k, st).v

\* the node structure below ref: Short keys, Full slots and values
RECURSIVE Shape(_, _)
Shape(H, ref) ==
    IF ref.type # "ptr" THEN ref
    ELSE LET n == H[ref.addr] IN
         IF n.type = "short"
         THEN [type |-> "short", key |-> n.key, child |-> Shape(H, n.child)]
         ELSE [type |-> "full", edges |-> [i \in 1..17 |-> Shape(H, n.edges[i])]]

(***************************************************************************)
(* The state machine                                                       *)
(***************************************************************************)

\* the keys of the transaction specification: one, two and three bytes,
\* a key that is a prefix of others, keys that part at every depth
KeySeq == << <<17>>, <<17, 17>>, <<17, 18, 17>>, <<18, 17>>, <<33>> >>

Keys == {KeySeq[i] : i \in 1..Len(KeySeq)}

Values == {Raw(<<1>>), Raw(<<2>>)}

\* the keys of the snapshot specification: they part at the first nibble, so
\* that the root of a trie that holds both is a FullNode
SnapKeys == {<<17>>, <<33>>}

SnapValues == {Raw(<<1>>)}

\* the keys and values of the store specification: a value of one byte and
\* one of 32; a node that holds the latter is stored under its hash
StoreKeys == {<<17>>, <<33>>}

Long == Raw([i \in 1..32 |-> 2])

StorePairs == {<< <<17>>, Raw(<<1>>) >>, << <<33>>, Long >>}

\* the nodes the backing store is let to lose
MaxDrops == 1

AllKeys == Keys

\* at most this many Trie objects (NewTrie() and the committed ones)
MaxTries == 2

\* the longest key a ShortNode is let to hold, in nibbles: a key of three
\* bytes and its terminator
MaxPath == 7

Bounded(H) == \A a \in 1..Len(H) : H[a].type = "short" => Len(H[a].key) <= MaxPath

NoModel == [k \in AllKeys |-> NoValue]

Size(m) == Cardinality({k \in AllKeys : m[k] # NoValue})

NoTxn == [root |-> Nil, epoch |-> Epoch(0), batch |-> 0, open |-> FALSE]

\* nothing has happened yet. parent: the Trie the transaction was opened
\* on, opened: that Trie was opened from its root hash, and the transaction
\* has changed nothing yet, panicked: the last operation panicked
NoHist == [deleted |-> FALSE, stray |-> FALSE, full |-> FALSE, parent |-> 0,
           opened |-> FALSE, panicked |-> FALSE]

\* an empty backing store. has: the hashes it holds a node for, fault: its
\* reads fail, drops: how many nodes it has lost
NoStorage == [has |-> {}, fault |-> FALSE, drops |-> 0]

\* storage.Batch(). puts: the hashes put, writes: the times it was written,
\* late: a put came after a write
NewBatch == [puts |-> {}, writes |-> 0, late |-> FALSE]

\* no Trie.Commit is running. pending: what of x is still to be walked,
\* root: the root hash of tt, cache: the root hashes state.AddState was
\* called with, commits: the calls made; emitted, sub: the nodes the
\* transactions of this call, and the storage ones among them, had to put;
\* before: what the store held when the call began; walked: the entries of
\* x walked so far, start: what the storage of each account held and its
\* root when the call began, fresh: the roots this call has called
\* state.AddState with
NoCommit ==
    [pc |-> "idle", pending |-> <<>>, root |-> NoHash, cache |-> {},
     commits |-> 0, emitted |-> {}, sub |-> {}, before |-> {},
     walked |-> <<>>, start |-> <<>>, fresh |-> {}]

\* the Put calls puts made on batch b (0: no batch, nothing is put)
Emit(bs, b, puts) ==
    IF b = 0 \/ puts = {} THEN bs
    ELSE [bs EXCEPT ![b].puts = @ \cup puts,
                    ![b].late = @ \/ bs[b].writes > 0]

\* no Trie.Get is running. trie: the Trie read, key: the key looked up,
\* node, rest: the arguments of the call of lookup to come, v: the result,
\* alone: what the Get returned had it run with nothing between its steps,
\* resolved: it has resolved a hash reference
NoReader == [pc |-> "idle", trie |-> 0, key |-> <<>>, node |-> Nil, rest |-> <<>>,
             v |-> NoValue, alone |-> NoValue, resolved |-> FALSE]

\* the next state's heap, tries, transaction and reader, up to addresses
SettleAll(H, trs, tx, r) ==
    Bind(Normalise(H, [i \in 1..Len(trs) |-> trs[i].root] \o <<tx.root, r.node>>),
         LAMBDA nz :
            /\ Bounded(nz.h)
            /\ heap' = nz.h
            /\ tries' = [i \in 1..Len(trs) |-> [trs[i] EXCEPT !.root = nz.roots[i]]]
            /\ txn' = [tx EXCEPT !.root = nz.roots[Len(trs) + 1]]
            /\ rd' = [r EXCEPT !.node = nz.roots[Len(trs) + 2]]
            /\ sam' = sam)

\* the same, the reader being where it was
Settle(H, trs, tx) == SettleAll(H, trs, tx, rd)

\* a Trie object, with what it held when it was made (ghost): what Get
\* returned for every key, and the node structure below its root
TrieOf(H, t, st) ==
    [root |-> t.root, epoch |-> t.epoch, hash |-> NoHash,
     snap |-> [k \in AllKeys |-> Get(H, t, k, st)],
     shape |-> Shape(H, t.root)]

\* NewTrie()
NewTrie == TrieOf(<<>>, [root |-> Nil, epoch |-> Epoch(0)], NoStorage)

(***************************************************************************)
(* SAMUEL                                                                  *)
(***************************************************************************)

\* at most this many events come from the event tracker
MaxEvents == 2

\* at most this many calls of SaveProgress
MaxSaves == 2

\* the payload type SaveProgress knows, and one it does not
ValidatorSetPayloadType == "ValidatorSetPayloadType"

OtherPayloadType == "OtherPayloadType"

\* the configured local contract address, and another address
LocalAddress == "local"

OtherAddress == "other"

Addresses == {LocalAddress, OtherAddress}

\* a block number, and rootchain.LatestRootchainBlockNumber
BlockNumber(n) == [latest |-> FALSE, n |-> n]

LatestRootchainBlockNumber == [latest |-> TRUE, n |-> 0]

\* the decimal digits of a string, as characters
Digit == <<"0", "1", "2", "3", "4", "5", "6", "7", "8", "9">>

\* %d of an unsigned integer
RECURSIVE FormatUint(_)
FormatUint(n) ==
    IF n < 10 THEN <<Digit[n + 1]>>
    ELSE Append(FormatUint(n \div 10), Digit[(n % 10) + 1])

\* fmt.Sprintf("%d:%d", index, blockNumber)
Sprintf(index, blockNumber) ==
    FormatUint(index) \o <<":">> \o FormatUint(blockNumber)

\* strings.Split(data, sep): the pieces between the separators, cur being
\* the piece begun
RECURSIVE Split(_, _, _)
Split(data, sep, cur) ==
    IF data = <<>> THEN <<cur>>
    ELSE IF Head(data) = sep THEN <<cur>> \o Split(Tail(data), sep, <<>>)
    ELSE Split(Tail(data), sep, Append(cur, Head(data)))

\* strconv.ParseUint(str, 10, 64) of a string that has read as n so far
RECURSIVE ParseUint(_, _)
ParseUint(str, n) ==
    IF str = <<>> THEN [err |-> FALSE, n |-> n]
    ELSE IF \A d \in 1..10 : Digit[d] # Head(str) THEN [err |-> TRUE, n |-> 0]
    ELSE ParseUint(Tail(str), 10 * n + (CHOOSE d \in 0..9 : Digit[d + 1] = Head(str)))

\* what storage holds under a key: nothing, or a string
NoEntry == [exists |-> FALSE, data |-> <<>>]

Entry(data) == [exists |-> TRUE, data |-> data]

\* getStartBlockNumber() on the storage db
getStartBlockNumber(db) ==
    Bind(db[LocalAddress], LAMBDA e :
        IF e.exists /\ e.data # <<>>
        THEN Bind(Split(e.data, ":", <<>>), LAMBDA values :
                 IF Len(values) < 2 THEN [err |-> TRUE, block |-> BlockNumber(0)]
                 ELSE Bind(IF values[2] = <<>> THEN [err |-> TRUE, n |-> 0]
                           ELSE ParseUint(values[2], 0), LAMBDA p :
                           IF p.err THEN [err |-> TRUE, block |-> BlockNumber(0)]
                           ELSE [err |-> FALSE, block |-> BlockNumber(p.n)]))
        ELSE [err |-> FALSE, block |-> LatestRootchainBlockNumber])

\* the input of SaveProgress: one the method ABI cannot decode, or the
\* arguments index and blockNumber
Undecodable == [decodes |-> FALSE, index |-> 0, blockNumber |-> 0]

Params(index, blockNumber) ==
    [decodes |-> TRUE, index |-> index, blockNumber |-> blockNumber]

Inputs == {Undecodable, Params(0, 7), Params(10, 12)}

\* NewSamuel(...): the module with its event tracker (started, block: what
\* Start was called with; chan, closed: the subscription; emitted: the
\* events sent), its SAMP (samp: the events of the messages added; prunes:
\* the calls of Prune), its transport (published), its storage (db) and
\* the goroutine of the event loop (loop: its position, ev: its event).
\* Ghost: done, the events the loop is through with and how it left them;
\* save, the SaveProgress call that has written and not yet pruned; call,
\* the last SaveProgress call; wrote, the arguments written; saves
NewSamuel(payloadType) ==
    [payloadType |-> payloadType,
     tracker |-> [started |-> FALSE, block |-> LatestRootchainBlockNumber],
     chan |-> <<>>, closed |-> FALSE, emitted |-> 0,
     loop |-> "off", ev |-> 0,
     samp |-> <<>>, published |-> <<>>, done |-> <<>>,
     db |-> [a \in Addresses |-> NoEntry],
     save |-> [pc |-> "idle", index |-> 0],
     call |-> [addr |-> LocalAddress, input |-> Undecodable, ok |-> FALSE],
     saves |-> 0, wrote |-> <<>>, prunes |-> <<>>]

\* the trie is left alone
TrieUnchanged ==
    UNCHANGED <<heap, tries, txn, storage, batches, model, hist, cs, rd>>

\* Start(): the event loop is started, the gossip handler registered
\* (registers: it could be), the start block read from storage and the
\* event tracker started with it (starts: it could be)
Start ==
    /\ sam.loop = "off"
    /\ \E registers \in BOOLEAN, starts \in BOOLEAN :
        Bind(getStartBlockNumber(sam.db), LAMBDA b :
            sam' = [sam EXCEPT
                      !.loop = "recv",
                      !.tracker = IF registers /\ ~b.err /\ starts
                                  THEN [started |-> TRUE, block |-> b.block]
                                  ELSE @])
    /\ TrieUnchanged

\* the event tracker sends its next event to the subscription
Event ==
    /\ sam.tracker.started
    /\ ~sam.closed
    /\ sam.emitted < MaxEvents
    /\ sam' = [sam EXCEPT !.emitted = @ + 1, !.chan = Append(@, sam.emitted + 1)]
    /\ TrieUnchanged

\* Stop(): the event tracker is stopped, and closes its subscription
Stop ==
    /\ sam.tracker.started
    /\ ~sam.closed
    /\ sam' = [sam EXCEPT !.closed = TRUE]
    /\ TrieUnchanged

\* for ev := range subscription: the next event is received
LoopRecv ==
    /\ sam.loop = "recv"
    /\ sam.chan # <<>>
    /\ sam' = [sam EXCEPT !.loop = "marshal", !.ev = Head(sam.chan),
                          !.chan = Tail(@)]
    /\ TrieUnchanged

\* for ev := range subscription: the subscription is closed and empty
LoopExit ==
    /\ sam.loop = "recv"
    /\ sam.chan = <<>>
    /\ sam.closed
    /\ sam' = [sam EXCEPT !.loop = "end"]
    /\ TrieUnchanged

\* the loop is through with its event: continue, or the end of the body
Continue(s, outcome) ==
    [s EXCEPT !.loop = "recv", !.ev = 0,
              !.done = Append(@, [ev |-> s.ev, outcome |-> outcome])]

\* data, err := ev.Marshal()
LoopMarshal ==
    /\ sam.loop = "marshal"
    /\ \E ok \in BOOLEAN :
        sam' = IF ok THEN [sam EXCEPT !.loop = "sign"]
               ELSE Continue(sam, "marshal")
    /\ TrieUnchanged

\* signature, err := s.signer.Sign(hash)
LoopSign ==
    /\ sam.loop = "sign"
    /\ \E ok \in BOOLEAN :
        sam' = IF ok THEN [sam EXCEPT !.loop = "add"]
               ELSE Continue(sam, "sign")
    /\ TrieUnchanged

\* mutant: the message goes on to be published when AddMessage has failed
LoopAddUnchecked ==
    /\ sam.loop = "add"
    /\ \E ok \in BOOLEAN :
        sam' = IF ok THEN [sam EXCEPT !.loop = "publish", !.samp = Append(@, sam.ev)]
               ELSE [sam EXCEPT !.loop = "publish"]
    /\ TrieUnchanged

\* s.samp.AddMessage(sam)
LoopAdd ==
    /\ sam.loop = "add"
    /\ \E ok \in BOOLEAN :
        sam' = IF ok THEN [sam EXCEPT !.loop = "publish", !.samp = Append(@, sam.ev)]
               ELSE Continue(sam, "add")
    /\ TrieUnchanged

\* s.transport.Publish(sam.ToProto())
LoopPublish ==
    /\ sam.loop = "publish"
    /\ \E ok \in BOOLEAN :
        sam' = IF ok THEN Continue([sam EXCEPT !.published = Append(@, sam.ev)], "ok")
               ELSE Continue(sam, "publish")
    /\ TrieUnchanged

\* a call of SaveProgress that returns before it writes
SaveReturns(s, addr, input, ok) ==
    [s EXCEPT !.saves = @ + 1,
              !.call = [addr |-> addr, input |-> input, ok |-> ok]]

\* mutant: the SAMP is pruned whether or not the write has failed
SaveProgressUnchecked ==
    /\ sam.save.pc = "idle"
    /\ sam.saves < MaxSaves
    /\ \E addr \in Addresses, input \in Inputs, ok \in BOOLEAN :
        sam' =
            IF addr # LocalAddress THEN SaveReturns(sam, addr, input, ok)
            ELSE IF ~input.decodes THEN SaveReturns(sam, addr, input, ok)
            ELSE IF sam.payloadType # ValidatorSetPayloadType
            THEN SaveReturns(sam, addr, input, ok)
            ELSE IF ~ok
            THEN [SaveReturns(sam, addr, input, ok) EXCEPT
                    !.save = [pc |-> "prune", index |-> input.index]]
            ELSE [SaveReturns(sam, addr, input, ok) EXCEPT
                    !.db[addr] = Entry(Sprintf(input.index, input.blockNumber)),
                    !.wrote = Append(@, input),
                    !.save = [pc |-> "prune", index |-> input.index]]
    /\ TrieUnchanged

\* SaveProgress(contractAddr, input), up to and with the write to storage
\* (ok: the write succeeds)
SaveProgress ==
    /\ sam.save.pc = "idle"
    /\ sam.saves < MaxSaves
    /\ \E addr \in Addresses, input \in Inputs, ok \in BOOLEAN :
        sam' =
            IF addr # LocalAddress THEN SaveReturns(sam, addr, input, ok)
            ELSE IF ~input.decodes THEN SaveReturns(sam, addr, input, ok)
            ELSE IF sam.payloadType # ValidatorSetPayloadType
            THEN SaveReturns(sam, addr, input, ok)
            ELSE IF ~ok THEN SaveReturns(sam, addr, input, ok)
            ELSE [SaveReturns(sam, addr, input, ok) EXCEPT
                    !.db[addr] = Entry(Sprintf(input.index, input.blockNumber)),
                    !.wrote = Append(@, input),
                    !.save = [pc |-> "prune", index |-> input.index]]
    /\ TrieUnchanged

\* SaveProgress, its end: s.samp.Prune(index)
SavePrune ==
    /\ sam.save.pc = "prune"
    /\ sam' = [sam EXCEPT !.prunes = Append(@, sam.save.index),
                          !.save = [pc |-> "idle", index |-> 0]]
    /\ TrieUnchanged

Init ==
    /\ heap = <<>>
    /\ tries = <<NewTrie>>
    /\ txn = NoTxn
    /\ storage = NoStorage
    /\ batches = <<>>
    /\ model = NoModel
    /\ hist = NoHist
    /\ cs = NoCommit
    /\ rd = NoReader
    /\ sam = NewSamuel(ValidatorSetPayloadType)

\* txn := tries[i].Txn(), the transaction before it dropped
TxnBegin ==
    /\ cs.pc = "idle"
    /\ \E i \in 1..Len(tries) :
        /\ Settle(heap, tries, Txn(tries[i]))
        /\ model' = tries[i].snap
        /\ hist' = [NoHist EXCEPT !.full = Size(tries[i].snap) = Cardinality(AllKeys),
                                  !.parent = i]
    /\ UNCHANGED <<storage, batches, cs>>

\* mutant: the panic is recovered from and the transaction goes on as it was
PanicRecovered ==
    /\ hist' = [hist EXCEPT !.panicked = TRUE]
    /\ UNCHANGED <<heap, tries, txn, model, batches, rd, sam>>

\* panic(err): the call is unwound up to the caller of the transaction (of
\* Trie.Commit, when the transaction is its tt), and the transaction is no more
Panic ==
    /\ Settle(heap, tries, NoTxn)
    /\ model' = NoModel
    /\ hist' = [NoHist EXCEPT !.panicked = TRUE]
    /\ UNCHANGED batches

\* txn.Insert(k, v)
TxnInsert(KV) ==
    /\ txn.open
    /\ \E kv \in KV :
        LET k == kv[1]
            v == kv[2]
        IN
        Bind(Insert(heap, txn, k, v, storage), LAMBDA r :
            IF r.panic THEN Panic
            ELSE
            /\ Settle(r.h, tries, [txn EXCEPT !.root = r.root])
            /\ batches' = Emit(batches, txn.batch, r.puts)
            /\ model' = [model EXCEPT ![k] = v]
            /\ hist' = [hist EXCEPT !.full = @ \/ Size(model') = Cardinality(AllKeys),
                                    !.opened = FALSE])
    /\ UNCHANGED <<storage, cs>>

\* txn.Delete(k)
TxnDelete(K) ==
    /\ txn.open
    /\ \E k \in K :
        Bind(Delete(heap, txn, k, storage), LAMBDA r :
            IF r.panic THEN Panic
            ELSE
            /\ Settle(r.h, tries, [txn EXCEPT !.root = r.root])
            /\ batches' = Emit(batches, txn.batch, r.puts)
            /\ model' = [model EXCEPT ![k] = NoValue]
            /\ hist' = [hist EXCEPT !.deleted = TRUE,
                                    !.stray = @ \/ model[k] = NoValue,
                                    !.opened = FALSE])
    /\ UNCHANGED <<storage, cs>>

\* tries := tries + txn.Commit()
TxnCommit ==
    /\ txn.open
    /\ Len(tries) < MaxTries
    /\ tries' = Append(tries, TrieOf(heap, Commit(txn), storage))
    /\ UNCHANGED <<heap, txn, storage, batches, model, hist, cs, rd, sam>>

\* tries := tries + txn.Commit(), and the transaction is let go of
TxnCommitLast ==
    /\ txn.open
    /\ Len(tries) < MaxTries
    /\ Settle(heap, Append(tries, TrieOf(heap, Commit(txn), storage)), NoTxn)
    /\ model' = NoModel
    /\ hist' = NoHist
    /\ UNCHANGED <<storage, batches, cs>>

\* txn.Lookup(k)
TxnLookup(K) ==
    /\ txn.open
    /\ \E k \in K :
        Bind(lookupCalls(heap, txn.root, keybytesToHex(k), storage), LAMBDA r :
            IF r.panic THEN Panic /\ UNCHANGED <<storage, cs>>
            ELSE /\ Settle(r.h, tries, txn)
                 /\ UNCHANGED <<storage, batches, model, hist, cs>>)

\* batch.Write(): what was put into batch b is in the store
Write(st, bs, b) == [st EXCEPT !.has = @ \cup bs[b].puts]

\* Trie.Commit on the empty Trie, its beginning:
\* batch := t.storage.Batch(); tt := t.Txn(); tt.batch = batch
StoreBegin ==
    /\ cs.pc = "idle"
    /\ Settle(heap, tries, [Txn(tries[1]) EXCEPT !.batch = 1])
    /\ model' = tries[1].snap
    /\ hist' = [NoHist EXCEPT !.parent = 1]
    /\ batches' = <<NewBatch>>
    /\ UNCHANGED <<storage, cs>>

\* Trie.Commit, its end: root := tt.Hash(); nTrie := tt.Commit();
\* batch.Write(); nTrie is known by its root hash, and tt is no more. The
\* Trie committed before is dropped by its holder.
StoreCommit ==
    /\ txn.open /\ txn.batch # 0
    /\ Bind(Hash(heap, txn.root), LAMBDA r :
       Bind(Emit(batches, txn.batch, r.puts), LAMBDA bs :
            /\ batches' = [bs EXCEPT ![txn.batch].writes = @ + 1]
            /\ storage' = Write(storage, bs, txn.batch)
            /\ Settle(r.h,
                      <<tries[1], [TrieOf(r.h, Commit(txn), storage)
                                      EXCEPT !.hash = r.root]>>,
                      NoTxn)))
    /\ model' = NoModel
    /\ hist' = NoHist
    /\ UNCHANGED cs

\* a Trie opened from a root hash: its root is a hash reference
Open(hash) == [root |-> ValueNode(TRUE, hash), epoch |-> Epoch(0)]

\* Trie.Commit on a Trie opened from the root hash of a committed one, its
\* beginning
StoreOpen ==
    /\ cs.pc = "idle"
    /\ \E i \in 2..Len(tries) :
        /\ Settle(heap, tries, [Txn(Open(tries[i].hash)) EXCEPT !.batch = 1])
        /\ model' = tries[i].snap
        /\ hist' = [NoHist EXCEPT !.parent = i, !.opened = TRUE]
    /\ batches' = <<NewBatch>>
    /\ UNCHANGED <<storage, cs>>

\* the backing store loses a node: get reports it absent from now on
StoreDrop ==
    /\ storage.drops < MaxDrops
    /\ \E h \in storage.has :
        storage' = [storage EXCEPT !.has = @ \ {h}, !.drops = @ + 1]
    /\ UNCHANGED <<heap, tries, txn, batches, model, hist, cs, rd, sam>>

(***************************************************************************)
(* Trie.Commit(x), step by step.  tries[1] is the state trie and           *)
(* tries[a + 1] the storage trie of account a; txn is tt, and the batch of *)
(* the call is batches[tt.batch].                                          *)
(***************************************************************************)

Accounts == 1..2

\* at most this many calls of Trie.Commit, one after the other
MaxCommits == 2

\* hashit(k) of the address of account a, the key of the account in the
\* state trie: one byte stands for the 32 bytes, another for every address
AddressKey(a) == <<16 * a + 1>>

\* bytes.TrimLeft(v, "\x00")
RECURSIVE TrimLeft(_)
TrimLeft(v) == IF v # <<>> /\ v[1] = 0 THEN TrimLeft(Tail(v)) ELSE v

\* rlp.EncodeToBytes of a byte string of at most 55 bytes
EncodeToBytes(v) ==
    IF Len(v) = 1 /\ v[1] < 128 THEN v ELSE <<128 + Len(v)>> \o v

\* the marshalled account: nonce, balance, Root and CodeHash
AccountData(root, code) == [kind |-> "account", root |-> root, code |-> code]

\* the code of an account, and the hash of no code
Code == Raw(<<96>>)

EmptyCodeHash == hashit(Raw(<<>>))

\* state.SetCode(hash, code): the code is in the backing store at once
SetCode(st, hash) == [st EXCEPT !.has = @ \cup {hash}]

\* an entry of x that is no *state.StateObject
Log == [kind |-> "log"]

\* a *state.StateObject of x; txn: the changes of its storage in the order
\* of their keys (none: a.Txn is nil), code: DirtyCode
StateObject(addr, deleted, changes, code) ==
    [kind |-> "object", addr |-> addr, deleted |-> deleted, txn |-> changes,
     code |-> code]

\* an entry of a.Txn: a value, or nil
Change(k, v) == [key |-> k, nil |-> FALSE, value |-> v]

Removal(k) == [key |-> k, nil |-> TRUE, value |-> <<>>]

\* a storage value of 32 bytes, and one with leading zero bytes
Word == [i \in 1..32 |-> 2]

Small == <<0, 0, 5>>

\* the change sets Trie.Commit is called with, each in the order of its walk
ChangeSets ==
    { << StateObject(1, FALSE, <<Change(<<17>>, Small)>>, FALSE) >>,
      << StateObject(1, FALSE, <<Change(<<17>>, Small), Change(<<33>>, Word)>>, TRUE),
         StateObject(2, FALSE, <<>>, FALSE) >>,
      << Log, StateObject(1, TRUE, <<>>, FALSE) >>,
      << StateObject(1, FALSE, <<Removal(<<17>>)>>, FALSE),
         StateObject(2, FALSE, <<Change(<<33>>, Word)>>, FALSE) >>,
      << StateObject(2, FALSE, <<Change(<<17>>, Word), Change(<<33>>, Word)>>, TRUE) >> }

\* the storage tries of the accounts, empty until they are first written
Accounted(trs) ==
    IF Len(trs) = 1 THEN trs \o [a \in Accounts |-> NewTrie] ELSE trs

\* a.Account.Root of an account whose storage trie is t
RootOf(t) == IF t.hash = NoHash THEN emptyRoot ELSE t.hash

\* mutant: the transaction of the storage trie is not given the batch
LocalTxnNoBatch(t, batch) == Txn(t)

\* localTxn := a.Account.Trie.Txn(); localTxn.batch = batch
LocalTxn(t, batch) == [Txn(t) EXCEPT !.batch = batch]

\* a.Txn.Root().Walk: every change applied to the transaction tx in turn
RECURSIVE ApplyChanges(_, _, _, _)
ApplyChanges(H, tx, changes, st) ==
    IF changes = <<>> THEN [h |-> H, root |-> tx.root, puts |-> {}, panic |-> FALSE]
    ELSE Bind(IF Head(changes).nil
              THEN Delete(H, tx, Head(changes).key, st)
              ELSE Insert(H, tx, Head(changes).key,
                          Raw(EncodeToBytes(TrimLeft(Head(changes).value))), st),
              LAMBDA r :
                IF r.panic
                THEN [h |-> r.h, root |-> r.root, puts |-> r.puts, panic |-> TRUE]
                ELSE Bind(ApplyChanges(r.h, [tx EXCEPT !.root = r.root],
                                       Tail(changes), st),
                          LAMBDA s : [s EXCEPT !.puts = @ \cup r.puts]))

\* mutant: the account keeps the storage root it had
CommitStorageOldRoot(H, t, batch, changes, st) ==
    Bind(LocalTxn(t, batch), LAMBDA localTxn :
    Bind(ApplyChanges(H, localTxn, changes, st), LAMBDA c :
    Bind(Hash(c.h, c.root), LAMBDA r :
         [h |-> r.h, trie |-> Commit([localTxn EXCEPT !.root = c.root]),
          root |-> RootOf(t), batch |-> localTxn.batch,
          puts |-> c.puts \cup r.puts, hashed |-> r.puts, panic |-> c.panic])))

\* the storage of an account committed, the account's trie being t: the
\* changes applied by a transaction of its own, then localTxn.Hash() and
\* localTxn.Commit(). [h, trie, root, batch, puts: what localTxn put,
\* hashed: what Hash had to put, panic]
CommitStorage(H, t, batch, changes, st) ==
    Bind(LocalTxn(t, batch), LAMBDA localTxn :
    Bind(ApplyChanges(H, localTxn, changes, st), LAMBDA c :
    Bind(Hash(c.h, c.root), LAMBDA r :
         [h |-> r.h, trie |-> Commit([localTxn EXCEPT !.root = c.root]),
          root |-> r.root, batch |-> localTxn.batch,
          puts |-> c.puts \cup r.puts, hashed |-> r.puts, panic |-> c.panic])))

\* an account whose a.Txn is nil: its storage trie and Root stay
KeepStorage(H, t) ==
    [h |-> H, trie |-> [root |-> t.root, epoch |-> t.epoch], root |-> RootOf(t),
     batch |-> 0, puts |-> {}, hashed |-> {}, panic |-> FALSE]

\* batch := t.storage.Batch(); tt := t.Txn(); tt.batch = batch
CommitStart ==
    /\ cs.pc = "idle"
    /\ cs.commits < MaxCommits
    /\ \E x \in ChangeSets :
        cs' = [cs EXCEPT !.pc = "walk", !.pending = x, !.root = NoHash,
                         !.emitted = {}, !.sub = {}, !.before = storage.has,
                         !.walked = <<>>, !.fresh = {},
                         !.start = [a \in Accounts |->
                                      [snap |-> Accounted(tries)[a + 1].snap,
                                       root |-> RootOf(Accounted(tries)[a + 1])]]]
    /\ Settle(heap, Accounted(tries), [Txn(tries[1]) EXCEPT !.batch = 1])
    /\ batches' = <<NewBatch>>
    /\ UNCHANGED <<storage, model, hist>>

\* the callback of x.Root().Walk on the next entry of x
CommitAccount ==
    /\ cs.pc = "walk"
    /\ cs.pending # <<>>
    /\ LET a == Head(cs.pending) IN
       IF a.kind = "log"
       THEN /\ cs' = [cs EXCEPT !.pending = Tail(@), !.walked = Append(@, a)]
            /\ UNCHANGED <<heap, tries, txn, storage, batches, rd, sam>>
       ELSE IF a.deleted
       THEN Bind(Delete(heap, txn, AddressKey(a.addr), storage), LAMBDA r :
                /\ ~r.panic
                /\ Settle(r.h, [tries EXCEPT ![a.addr + 1] = NewTrie],
                          [txn EXCEPT !.root = r.root])
                /\ batches' = Emit(batches, txn.batch, r.puts)
                /\ cs' = [cs EXCEPT !.pending = Tail(@), !.walked = Append(@, a)]
                /\ UNCHANGED storage)
       ELSE Bind(IF a.txn # <<>>
                 THEN CommitStorage(heap, tries[a.addr + 1], txn.batch, a.txn, storage)
                 ELSE KeepStorage(heap, tries[a.addr + 1]), LAMBDA s :
            Bind(Insert(s.h, txn, AddressKey(a.addr),
                        AccountData(s.root, IF a.code THEN hashit(Code) ELSE EmptyCodeHash),
                        storage), LAMBDA r :
                /\ ~s.panic /\ ~r.panic
                /\ Settle(r.h,
                          [tries EXCEPT ![a.addr + 1] =
                              [TrieOf(r.h, s.trie, storage) EXCEPT !.hash = s.root]],
                          [txn EXCEPT !.root = r.root])
                /\ batches' = Emit(Emit(batches, s.batch, s.puts), txn.batch, r.puts)
                /\ storage' = IF a.code THEN SetCode(storage, hashit(Code)) ELSE storage
                /\ cs' = [cs EXCEPT !.pending = Tail(@), !.walked = Append(@, a),
                                    !.cache = @ \cup (IF a.txn # <<>> THEN {s.root} ELSE {}),
                                    !.fresh = @ \cup (IF a.txn # <<>> THEN {s.root} ELSE {}),
                                    !.emitted = @ \cup s.hashed,
                                    !.sub = @ \cup s.hashed]))
    /\ UNCHANGED <<model, hist>>

\* root := tt.Hash(), when the walk is over
CommitHash ==
    /\ cs.pc = "walk"
    /\ cs.pending = <<>>
    /\ Bind(Hash(heap, txn.root), LAMBDA r :
            /\ Settle(r.h, tries, txn)
            /\ batches' = Emit(batches, txn.batch, r.puts)
            /\ cs' = [cs EXCEPT !.pc = "hashed", !.root = r.root,
                                !.emitted = @ \cup r.puts])
    /\ UNCHANGED <<storage, model, hist>>

\* nTrie := tt.Commit(); batch.Write()
CommitWrite ==
    /\ cs.pc = "hashed"
    /\ storage' = Write(storage, batches, txn.batch)
    /\ batches' = [batches EXCEPT ![txn.batch].writes = @ + 1]
    /\ Settle(heap, [tries EXCEPT ![1] = [TrieOf(heap, Commit(txn), storage)
                                             EXCEPT !.hash = cs.root]],
              NoTxn)
    /\ cs' = [cs EXCEPT !.pc = "written"]
    /\ UNCHANGED <<model, hist>>

\* t.state.AddState(root, nTrie); return nTrie, root
CommitReturn ==
    /\ cs.pc = "written"
    /\ cs' = [cs EXCEPT !.pc = "idle", !.cache = @ \cup {cs.root},
                        !.fresh = @ \cup {cs.root}, !.commits = @ + 1]
    /\ UNCHANGED <<heap, tries, txn, storage, batches, model, hist, rd, sam>>

\* another thread calls tries[i].Get(k): txn := t.Txn(); txn.Lookup(k), up
\* to the first call of lookup
ReadBegin(K) ==
    /\ rd.pc # "walk"
    /\ \E i \in 2..Len(tries), k \in K :
        SettleAll(heap, tries, txn,
                  [pc |-> "walk", trie |-> i, key |-> k, node |-> tries[i].root,
                   rest |-> keybytesToHex(k), v |-> NoValue,
                   alone |-> Get(heap, tries[i], k, storage), resolved |-> FALSE])
    /\ UNCHANGED <<storage, batches, model, hist, cs>>

\* mutant: a hash reference held by the node visited is replaced in place
\* by the node it resolves to
ReadStepSplice ==
    /\ rd.pc = "walk"
    /\ Bind(lookupStep(heap, rd.node, rd.rest, storage), LAMBDA r :
       Bind(IF ~r.done /\ r.node.type = "value" /\ r.node.hash
            THEN GetNode(r.h, r.node.buf, storage)
            ELSE [h |-> r.h, n |-> r.node, ok |-> FALSE, err |-> FALSE], LAMBDA g :
            SettleAll(IF ~g.ok THEN r.h
                      ELSE [g.h EXCEPT ![rd.node.addr] =
                               IF @.type = "short" THEN [@ EXCEPT !.child = g.n]
                               ELSE setEdge(@, IF rd.rest = <<>> THEN Terminator
                                               ELSE rd.rest[1], g.n)],
                      tries, txn,
                      IF r.panic THEN NoReader
                      ELSE [rd EXCEPT !.pc = IF r.done THEN "done" ELSE "walk",
                                      !.node = IF g.ok THEN g.n ELSE r.node,
                                      !.rest = r.rest, !.v = r.v])))
    /\ UNCHANGED <<storage, batches, model, hist, cs>>

\* the thread's next call of lookup: one node is visited
ReadStep ==
    /\ rd.pc = "walk"
    /\ Bind(lookupStep(heap, rd.node, rd.rest, storage), LAMBDA r :
            SettleAll(r.h, tries, txn,
                      IF r.panic THEN NoReader
                      ELSE [rd EXCEPT !.pc = IF r.done THEN "done" ELSE "walk",
                                      !.node = r.node, !.rest = r.rest, !.v = r.v,
                                      !.resolved = @ \/ (rd.node.type = "value"
                                                         /\ rd.node.hash)]))
    /\ UNCHANGED <<storage, batches, model, hist, cs>>

\* reads of the backing store fail from now on
StoreFault ==
    /\ ~storage.fault
    /\ storage' = [storage EXCEPT !.fault = TRUE]
    /\ UNCHANGED <<heap, tries, txn, batches, model, hist, cs, rd, sam>>

Next ==
    \/ TxnBegin
    \/ TxnInsert(Keys \X Values)
    \/ TxnDelete(Keys)

Spec == Init /\ [][Next]_vars

NextSnap ==
    \/ TxnBegin
    \/ TxnInsert(SnapKeys \X SnapValues)
    \/ TxnDelete(SnapKeys)
    \/ TxnCommit

\* transactions opened on committed tries
SpecSnap == Init /\ [][NextSnap]_vars

NextStore ==
    \/ StoreBegin
    \/ TxnInsert(StorePairs)
    \/ TxnDelete(StoreKeys)
    \/ TxnLookup(StoreKeys)
    \/ StoreCommit
    \/ StoreOpen
    \/ StoreDrop

\* transactions that are committed to the backing store, and tries opened
\* from it
SpecStore == Init /\ [][NextStore]_vars

NextRead ==
    \/ StoreBegin
    \/ TxnInsert(StorePairs)
    \/ TxnLookup(StoreKeys)
    \/ StoreCommit
    \/ StoreOpen
    \/ ReadBegin(StoreKeys)
    \/ ReadStep

\* lookups on transactions and on committed tries whose nodes are partly in
\* memory and partly in the backing store, between inserts and commits
SpecRead == Init /\ [][NextRead]_vars

\* a SAMUEL of either payload type, just made
InitSamuel ==
    /\ heap = <<>>
    /\ tries = <<NewTrie>>
    /\ txn = NoTxn
    /\ storage = NoStorage
    /\ batches = <<>>
    /\ model = NoModel
    /\ hist = NoHist
    /\ cs = NoCommit
    /\ rd = NoReader
    /\ \E payloadType \in {ValidatorSetPayloadType, OtherPayloadType} :
          sam = NewSamuel(payloadType)

NextLoop ==
    \/ Start
    \/ Event
    \/ Stop
    \/ LoopRecv
    \/ LoopMarshal
    \/ LoopSign
    \/ LoopAdd
    \/ LoopPublish
    \/ LoopExit

\* the event loop, every step of which is taken if it can be for ever
SpecLoop ==
    /\ InitSamuel
    /\ [][NextLoop]_vars
    /\ WF_vars(LoopRecv) /\ WF_vars(LoopMarshal) /\ WF_vars(LoopSign)
    /\ WF_vars(LoopAdd) /\ WF_vars(LoopPublish) /\ WF_vars(LoopExit)

NextProgress ==
    \/ SaveProgress
    \/ SavePrune
    \/ Start

\* SaveProgress calls before and after Start
SpecProgress == InitSamuel /\ [][NextProgress]_vars

NextShare ==
    \/ TxnBegin
    \/ TxnInsert(SnapKeys \X SnapValues)
    \/ TxnDelete(SnapKeys)
    \/ TxnCommitLast
    \/ ReadBegin(SnapKeys)
    \/ ReadStep

\* a thread reading committed tries while transactions are at work on them
SpecShare == Init /\ [][NextShare]_vars

\* txn.Hash(): the hashes are cached on the nodes
TxnHash ==
    /\ txn.open
    /\ Bind(Hash(heap, txn.root), LAMBDA r :
            /\ Settle(r.h, tries, txn)
            /\ batches' = Emit(batches, txn.batch, r.puts))
    /\ UNCHANGED <<storage, model, hist, cs>>

\* the pairs of the hashing specification: with the long value the
\* encoding of a node above it has 32 bytes or more
HashPairs == StorePairs \cup {<< <<17, 17>>, Raw(<<1>>) >>, << <<17, 17>>, Long >>}

HashKeys == {kv[1] : kv \in HashPairs}

NextHash ==
    \/ TxnBegin
    \/ TxnInsert(HashPairs)
    \/ TxnDelete(HashKeys)
    \/ TxnHash

\* a transaction that is hashed time and again while it inserts and deletes
SpecHash == Init /\ [][NextHash]_vars

\* the keys of the copy-on-write specification: two that part at the root,
\* and one that goes on where another ends
CowKeys == {<<17>>, <<17, 17>>, <<33>>}

NextCow ==
    \/ TxnBegin
    \/ TxnInsert(CowKeys \X SnapValues)
    \/ TxnCommitLast

\* transactions that insert, each opened on a committed trie
SpecCow == Init /\ [][NextCow]_vars

NextSame ==
    \/ TxnBegin
    \/ TxnInsert(CowKeys \X SnapValues)
    \/ TxnCommit

\* transactions that go on after their Commit
SpecSame == Init /\ [][NextSame]_vars

\* epochs of a Trie: the first, the last of a 16-bit half and the last two
\* of the 32 bits
Epochs ==
    {Epoch(0), [hi |-> 0, lo |-> Half - 1], [hi |-> Half - 1, lo |-> Half - 2],
     [hi |-> Half - 1, lo |-> Half - 1]}

\* the empty Trie that as many Txn() and Commit() calls in turn have led to
InitEpoch ==
    /\ heap = <<>>
    /\ \E e \in Epochs : tries = <<[NewTrie EXCEPT !.epoch = e]>>
    /\ txn = NoTxn
    /\ storage = NoStorage
    /\ batches = <<>>
    /\ model = NoModel
    /\ hist = NoHist
    /\ cs = NoCommit
    /\ rd = NoReader
    /\ sam = NewSamuel(ValidatorSetPayloadType)

\* the transactions of SpecCow, on tries of late epochs
SpecEpoch == InitEpoch /\ [][NextCow]_vars

NextFault ==
    \/ StoreBegin
    \/ TxnInsert(StorePairs)
    \/ TxnDelete(StoreKeys)
    \/ TxnLookup(StoreKeys)
    \/ StoreCommit
    \/ StoreOpen
    \/ StoreFault

\* transactions of Trie.Commit over a backing store whose reads come to fail
SpecFault == Init /\ [][NextFault]_vars

NextCommit ==
    \/ CommitStart
    \/ CommitAccount
    \/ CommitHash
    \/ CommitWrite
    \/ CommitReturn

\* calls of Trie.Commit on the state trie, each on the Trie the one before
\* returned
SpecCommit == Init /\ [][NextCommit]_vars

(***************************************************************************)
(* What the claims speak of                                                *)
(***************************************************************************)

\* the pairs of m inserted into an empty trie, in the order of KeySeq
RECURSIVE FreshFrom(_, _, _)
FreshFrom(H, tx, i) ==
    IF i > Len(KeySeq) THEN [h |-> H, root |-> tx.root]
    ELSE IF model[KeySeq[i]] = NoValue THEN FreshFrom(H, tx, i + 1)
    ELSE LET r == Insert(H, tx, KeySeq[i], model[KeySeq[i]], storage)
         IN  IF r.panic THEN [h |-> H, root |-> tx.root]
             ELSE FreshFrom(r.h, [tx EXCEPT !.root = r.root], i + 1)

Fresh == FreshFrom(<<>>, [txn EXCEPT !.root = Nil], 1)

FreshShape == Shape(Fresh.h, Fresh.root)

\* the nodes of H reachable from ref
Reachable(H, ref) ==
    LET order == Visit(H, ref, <<>>) IN {order[i] : i \in 1..Len(order)}

NonEmptyEdges(n) == Cardinality({i \in 1..17 : n.edges[i] # Nil})

WellFormedNode(H, n) ==
    IF n.type = "short"
    THEN n.key # <<>> /\ ~IsShort(H, n.child)
    ELSE NonEmptyEdges(n) >= 2

WellFormed(H, ref) == \A a \in Reachable(H, ref) : WellFormedNode(H, H[a])

InsertsOnly == txn.open /\ ~hist.deleted

\* C1: after inserts only into an empty trie, in any order, Lookup(k) is the
\* value last inserted at k for every key of the map and nil for every other key
C1_RoundTrip ==
    InsertsOnly =>
        \A k \in Keys : Lookup(heap, txn, k, storage) =
                            LookupResult(model[k], FALSE, FALSE)

\* three keys are in, two of them a key and its prefix, a third of another length
C1_Witness ==
    /\ InsertsOnly
    /\ model[<<17>>] # NoValue /\ model[<<17, 17>>] # NoValue
    /\ model[<<17, 18, 17>>] # NoValue /\ model[<<33>>] = NoValue

\* C3: whatever the order of the inserts, the root has the node structure (and
\* so the root hash) of the map inserted in one fixed order
C3_OrderIndependent ==
    InsertsOnly =>
        /\ Shape(heap, txn.root) = FreshShape
        /\ Hash(heap, txn.root).root = Hash(Fresh.h, Fresh.root).root

C3_Witness == InsertsOnly /\ Size(model) = Cardinality(Keys)

\* C4: when every key inserted has been deleted again, the root is nil
C4_DeleteInvertsInsert ==
    (txn.open /\ ~hist.stray /\ Size(model) = 0) => txn.root = Nil

C4_Witness ==
    /\ txn.open /\ ~hist.stray /\ hist.deleted
    /\ hist.full /\ Size(model) = 0 /\ txn.root = Nil

\* C5: after inserts and deletes of present keys the root is the root of the
\* final map inserted fresh into an empty trie
C5_Canonical ==
    (txn.open /\ ~hist.stray) =>
        /\ Shape(heap, txn.root) = FreshShape
        /\ Hash(heap, txn.root).root = Hash(Fresh.h, Fresh.root).root

\* every key was in, and keys were deleted and put in again
C5_Witness ==
    /\ txn.open /\ ~hist.stray /\ hist.deleted
    /\ hist.full /\ Size(model) = 4

\* C6: no Short has an empty key, no Full has fewer than two non-empty slots
\* and no Short's child is a Short, after any inserts and deletes
C6_WellFormed == txn.open => WellFormed(heap, txn.root)

C6_Witness ==
    /\ txn.open /\ hist.deleted /\ hist.full /\ Size(model) = 3
    /\ \E a \in Reachable(heap, txn.root) : heap[a].type = "full"

\* C2: while a transaction opened on a committed trie T inserts, deletes
\* and commits, T.Get(k) stays what it was for every key and the structure
\* below T's root stays what it was
C2_SnapshotIsolation ==
    (txn.open /\ hist.parent > 1) =>
        LET T == tries[hist.parent] IN
        /\ \A k \in SnapKeys : Get(heap, T, k, storage) = T.snap[k]
        /\ Shape(heap, T.root) = T.shape

\* C7: a Trie opened from the root hash a commit returned, against the
\* backing store that commit wrote and that has lost nothing since, returns
\* for every key what the committed Trie held, however small the map
C7_PersistenceRoundTrip ==
    (txn.open /\ hist.opened /\ storage.drops = 0) =>
        \A k \in StoreKeys :
            Lookup(heap, txn, k, storage).v = tries[hist.parent].snap[k]

\* the batch of the last call of Trie.Commit has been written
Flushed == cs.pc = "written" \/ (cs.pc = "idle" /\ cs.commits > 0)

C9_NoWriteBeforeCommit ==
    [][(TxnInsert(StorePairs) \/ TxnDelete(StoreKeys) \/ TxnLookup(StoreKeys))
          => UNCHANGED <<storage, batches>>]_vars

\* a transaction with a batch has inserted and deleted over a store that
\* holds nodes, and its batch is empty
C9_Witness ==
    /\ txn.open /\ txn.batch # 0 /\ hist.deleted /\ Size(model) = 2
    /\ storage.has # {} /\ batches[txn.batch] = NewBatch

\* C10: a Lookup that meets a hash reference the store does not hold
\* returns no value, and a Delete that meets one changes nothing: the nodes
\* below the root and every lookup are as before
C10_AbsentIsNotPresent ==
    [][\A k \in StoreKeys :
          /\ Lookup(heap, txn, k, storage).absent
                => Lookup(heap, txn, k, storage).v = NoValue
          /\ (TxnDelete({k}) /\ Delete(heap, txn, k, storage).absent)
                => /\ Shape(heap', txn'.root) = Shape(heap, txn.root)
                   /\ \A j \in StoreKeys :
                         Lookup(heap', txn', j, storage') = Lookup(heap, txn, j, storage)
      ]_vars

\* C11: an Insert that meets a hash reference whose node the store has lost
\* does not complete: the transaction takes no Insert step
C11_InsertAbsentIsFatal ==
    [][\A kv \in StorePairs :
          (storage.drops > 0 /\ Insert(heap, txn, kv[1], kv[2], storage).absent)
              => ~TxnInsert({kv})
      ]_vars

\* the walk from node along search comes to a hash reference
RECURSIVE MeetsRef(_, _, _)
MeetsRef(H, node, search) ==
    CASE node.type = "nil" -> FALSE
      [] node.type = "value" -> node.hash
      [] node.type = "ptr" ->
            LET n == H[node.addr] IN
            IF n.type = "short"
            THEN /\ Len(n.key) <= Len(search)
                 /\ Upto(search, Len(n.key)) = n.key
                 /\ MeetsRef(H, n.child, From(search, Len(n.key)))
            ELSE IF search = <<>> THEN FALSE
                 ELSE MeetsRef(H, getEdge(n, search[1]), Tail(search))

\* what the tries hold and are known by
Returned(trs) == [i \in 1..Len(trs) |-> <<trs[i].hash, trs[i].snap>>]

\* C12: when reads of the store fail, a Lookup, Insert or Delete that has a
\* node to resolve panics; the panic ends the transaction and, for the
\* transaction of Trie.Commit, the call: its batch is not written, the
\* store is as it was and no new Trie is returned
C12_FaultIsFatal ==
    [][/\ \A kv \in StorePairs :
            (/\ storage.fault
             /\ MeetsRef(heap, txn.root, keybytesToHex(kv[1]))
             /\ (TxnInsert({kv}) \/ TxnDelete({kv[1]}) \/ TxnLookup({kv[1]})))
                => hist'.panicked
       /\ hist'.panicked =>
            /\ ~txn'.open
            /\ batches'[1].writes = 0
            /\ storage' = storage
            /\ Returned(tries') = Returned(tries)
      ]_vars

\* the transaction of a Trie.Commit on a Trie opened from the store has
\* panicked on a failed read, after changes that needed none
C12_Witness ==
    /\ hist.panicked /\ storage.fault /\ storage.has # {}
    /\ Len(tries) = 2 /\ batches = <<NewBatch>>

\* C13: a Get on a committed Trie, its node visits interleaved with the
\* Insert and Delete calls of transactions, returns what the Trie held for
\* its key when it was committed
C13_LockFreeReaders ==
    rd.pc = "done" => rd.v = tries[rd.trie].snap[rd.key]

\* the walk from node along search comes to a Short whose key the search
\* leaves before its end
RECURSIVE Diverges(_, _, _)
Diverges(H, node, search) ==
    IF node.type # "ptr" THEN FALSE
    ELSE LET n == H[node.addr] IN
         IF n.type = "short"
         THEN \/ prefixLen(search, n.key) < Len(n.key)
              \/ Diverges(H, n.child, From(search, Len(n.key)))
         ELSE /\ search # <<>>
              /\ Diverges(H, getEdge(n, search[1]), Tail(search))

\* C14: a Delete whose key leaves the key of a Short before its end reports
\* no change and changes nothing: the nodes below the root and the value of
\* every key are as before
C14_DeleteAbsentKeepsAll ==
    [][\A k \in Keys :
          (TxnDelete({k}) /\ Diverges(heap, txn.root, keybytesToHex(k)))
              => /\ ~Delete(heap, txn, k, storage).ok
                 /\ Shape(heap', txn'.root) = Shape(heap, txn.root)
                 /\ \A j \in Keys :
                       Lookup(heap', txn', j, storage') = Lookup(heap, txn, j, storage)
      ]_vars

\* the FullNodes the walk from node along search goes through: for each its
\* address, the nibbles left behind when it is reached and the slot taken
RECURSIVE PathFulls(_, _, _, _)
PathFulls(H, node, search, depth) ==
    IF node.type # "ptr" THEN {}
    ELSE LET n == H[node.addr] IN
         IF n.type = "short"
         THEN IF prefixLen(search, n.key) < Len(n.key) THEN {}
              ELSE PathFulls(H, n.child, From(search, Len(n.key)), depth + Len(n.key))
         ELSE IF search = <<>>
              THEN {[addr |-> node.addr, depth |-> depth, slot |-> Terminator]}
              ELSE {[addr |-> node.addr, depth |-> depth, slot |-> search[1]]}
                   \cup PathFulls(H, getEdge(n, search[1]), Tail(search), depth + 1)

\* the node the walk from node along search is at when depth nibbles are
\* left behind
RECURSIVE NodeAt(_, _, _, _)
NodeAt(H, node, search, depth) ==
    IF depth = 0 \/ node.type # "ptr" THEN node
    ELSE LET n == H[node.addr] IN
         IF n.type = "short"
         THEN NodeAt(H, n.child, From(search, Len(n.key)), depth - Len(n.key))
         ELSE NodeAt(H, getEdge(n, search[1]), Tail(search), depth - 1)

\* the slots of the FullNodes f and g are the same but for slot
SameSlots(f, g, slot) ==
    \A i \in 0..16 : i # slot => getEdge(f, i) = getEdge(g, i)

\* C15: an Insert that comes to a FullNode of the transaction's epoch writes
\* to that node; at a FullNode of another epoch it leaves the node as it was
\* and links in its place a copy with the same slots, the transaction's epoch
\* and no hash cached, and writes to the copy
C15_WriteNode ==
    [][\A kv \in CowKeys \X SnapValues :
          TxnInsert({kv}) =>
            LET search == keybytesToHex(kv[1])
                r == insert(heap, txn.root, search, kv[2], Ctx(txn, storage))
            IN  \A f \in PathFulls(heap, txn.root, search, 0) :
                  LET b == NodeAt(r.h, r.n, search, f.depth) IN
                  /\ b.type = "ptr" /\ IsFull(r.h, b)
                  /\ SameSlots(r.h[b.addr], heap[f.addr], f.slot)
                  /\ IF heap[f.addr].epoch = txn.epoch
                     THEN b.addr = f.addr
                     ELSE /\ b.addr # f.addr
                          /\ r.h[f.addr] = heap[f.addr]
                          /\ r.h[b.addr].epoch = txn.epoch
                          /\ r.h[b.addr].hash = NoHash
      ]_vars

\* a transaction opened on a committed trie has inserted below the
\* FullNode at its root, which is a copy, and again, into the copy
C15_Witness ==
    /\ txn.open /\ hist.parent = 2 /\ Size(model) = 3
    /\ IsFull(heap, txn.root) /\ IsFull(heap, tries[2].root)
    /\ txn.root # tries[2].root
    /\ heap[txn.root.addr].epoch = txn.epoch
    /\ heap[tries[2].root.addr].epoch # txn.epoch

\* a > b, as 32-bit numbers
Greater(a, b) == a.hi > b.hi \/ (a.hi = b.hi /\ a.lo > b.lo)

\* C17: the epoch of a transaction is greater than the epoch of the Trie it
\* was opened on, whatever that epoch; the Trie a Commit returns has the
\* epoch of its transaction; no FullNode below the Trie a transaction was
\* opened on has the transaction's epoch
C17_EpochGreater ==
    [][/\ txn'.open =>
            /\ Greater(txn'.epoch, tries'[hist'.parent].epoch)
            /\ \A a \in Reachable(heap', tries'[hist'.parent].root) :
                  heap'[a].type = "full" => heap'[a].epoch # txn'.epoch
       /\ TxnCommitLast => tries'[Len(tries')].epoch = txn.epoch
      ]_vars

\* the heap with no hash cached
Uncached(H) == [a \in 1..Len(H) |-> [H[a] EXCEPT !.hash = NoHash]]

\* C16: whatever Insert, Delete and Hash calls a transaction has seen, the
\* hash cached on a node of it is the hash of the node's encoding as the
\* node now stands
C16_HashCacheValid ==
    txn.open =>
        \A a \in Reachable(heap, txn.root) :
            heap[a].hash # NoHash => heap[a].hash = hashit(Encoding(Uncached(heap), a))

\* the slots of the FullNode f that are not nil
Slots(f) == {i \in 0..16 : getEdge(f, i) # Nil}

\* the heap with the slots X of the FullNode at addr set to nil
Cleared(H, addr, X) ==
    [H EXCEPT ![addr].edges = [j \in 1..17 |-> IF j - 1 \in X THEN Nil ELSE @[j]]]

\* the nodes below ref, ref being resolved from the store when it is a hash
\* reference the store holds
ResolvedShape(H, ref, st) ==
    IF ref.type = "value" /\ ref.hash /\ ref.buf \in st.has
    THEN Bind(GetNode(H, ref.buf, st), LAMBDA g : Shape(g.h, g.n))
    ELSE Shape(H, ref)

\* what the claim has Collapse return for the FullNode at addr
Collapsed(H, addr, st) ==
    LET n == H[addr]
        S == Slots(n)
    IN  IF Cardinality(S) >= 2 THEN Shape(H, Ptr(addr))
        ELSE IF S = {} THEN Nil
        ELSE IF S = {Terminator}
        THEN [type |-> "short", key |-> <<Terminator>>, child |-> getEdge(n, Terminator)]
        ELSE LET i == Least(S)
                 c == ResolvedShape(H, getEdge(n, i), st)
             IN  IF c.type = "short"
                 THEN [type |-> "short", key |-> <<i>> \o c.key, child |-> c.child]
                 ELSE [type |-> "short", key |-> <<i>>, child |-> c]

\* C18: a FullNode that has lost slots to Delete stays as it is with two or
\* more slots left, becomes nil with none, a Short of the terminator over
\* its value with the value alone, and with one child alone a Short of the
\* child's nibble: over the child, or with the child's key and child when
\* the child, resolved, is a Short
C18_FullCollapse ==
    txn.open =>
        \A a \in Reachable(heap, txn.root) :
            heap[a].type = "full" =>
                \A X \in SUBSET Slots(heap[a]) :
                    LET H1 == Cleared(heap, a, X)
                        r == Collapse(H1, a, FALSE, Ctx(txn, storage))
                    IN  (r.ok /\ X # {}) =>
                            /\ Shape(r.h, r.n) = Collapsed(H1, a, storage)
                            /\ Cardinality(Slots(H1[a])) >= 2 => r.n = Ptr(a)

\* every key was in and two are left, below a Short the FullNode at the
\* root has collapsed into
C18_Witness ==
    /\ txn.open /\ hist.deleted /\ ~hist.stray /\ hist.full
    /\ Size(model) = 2 /\ IsShort(heap, txn.root)

\* what a storage holding m holds once the changes of an account are
\* applied to it: a nil value deletes, any other value is inserted trimmed
\* and encoded
RECURSIVE Applied(_, _)
Applied(m, changes) ==
    IF changes = <<>> THEN m
    ELSE Applied([m EXCEPT ![Head(changes).key] =
                     IF Head(changes).nil THEN NoValue
                     ELSE Raw(EncodeToBytes(TrimLeft(Head(changes).value)))],
                 Tail(changes))

\* the pairs of m inserted into an empty trie, in the order of KeySeq
RECURSIVE Built(_, _, _, _)
Built(m, H, tx, i) ==
    IF i > Len(KeySeq) THEN [h |-> H, root |-> tx.root]
    ELSE IF m[KeySeq[i]] = NoValue THEN Built(m, H, tx, i + 1)
    ELSE Bind(Insert(H, tx, KeySeq[i], m[KeySeq[i]], NoStorage), LAMBDA r :
              Built(m, r.h, [tx EXCEPT !.root = r.root], i + 1))

\* the root hash of a trie that holds m and nothing else
RootHolding(m) ==
    Bind(Built(m, <<>>, Txn(NewTrie), 1), LAMBDA b : Hash(b.h, b.root).root)

\* the storage root the record of the walked object o has to carry
PostChangeRoot(o) ==
    IF o.txn = <<>> THEN cs.start[o.addr].root
    ELSE RootHolding(Applied(cs.start[o.addr].snap, o.txn))

\* what the outer trie of the running call, or the one it returned, holds
\* at keccak(address)
OuterRecord(addr) ==
    IF txn.open THEN Lookup(heap, txn, AddressKey(addr), storage).v
    ELSE Get(heap, tries[1], AddressKey(addr), storage)

\* C19: once the walk of Trie.Commit has passed an account, the outer trie
\* holds nothing at keccak(address) if the account is marked deleted;
\* otherwise the storage sub-trie of the account holds what it held with
\* every storage change applied (nil deletes, any other value inserts), and
\* the record at keccak(address) carries the root of exactly that storage
\* (the root the account had if it has no storage changes)
C19_TwoLevelCommit ==
    \A i \in 1..Len(cs.walked) :
        LET o == cs.walked[i] IN
        o.kind = "object" =>
            IF o.deleted THEN OuterRecord(o.addr) = NoValue
            ELSE /\ tries[o.addr + 1].snap = Applied(cs.start[o.addr].snap, o.txn)
                 /\ OuterRecord(o.addr) =
                        AccountData(PostChangeRoot(o),
                                    IF o.code THEN hashit(Code) ELSE EmptyCodeHash)

\* a call has walked an account whose storage lost a key it held and an
\* account that gained one, and the records differ from the ones before
C19_Witness ==
    /\ cs.pc = "walk"
    /\ cs.pending = <<>>
    /\ Len(cs.walked) = 2
    /\ cs.walked[1].kind = "object"
    /\ cs.walked[1].txn = <<Removal(<<17>>)>>
    /\ cs.start[1].snap[<<17>>] # NoValue
    /\ cs.start[1].snap[<<33>>] # NoValue
    /\ PostChangeRoot(cs.walked[1]) # cs.start[1].root
    /\ PostChangeRoot(cs.walked[1]) # emptyRoot
    /\ OuterRecord(1) # NoValue
    /\ OuterRecord(1).root = PostChangeRoot(cs.walked[1])
    /\ OuterRecord(2) # NoValue
    /\ OuterRecord(2).root # emptyRoot

\* a call has walked an account marked deleted that the outer trie held
C19_WitnessDeleted ==
    /\ cs.pc = "walk"
    /\ cs.pending = <<>>
    /\ Len(cs.walked) = 2
    /\ cs.walked[2].deleted
    /\ Get(heap, tries[1], AddressKey(1), storage) # NoValue
    /\ OuterRecord(1) = NoValue

\* the node a root hash names is in the backing store
Durable(root) == root = emptyRoot \/ root \in storage.has

\* C20: a root the running call of Trie.Commit has registered in the root
\* cache, the root of the outer trie or of a storage trie, was registered
\* when the batch had been written, and its node is in the backing store
C20_RegisterAfterFlush ==
    \A root \in cs.fresh : Flushed /\ Durable(root)

\* the outer root is registered when the batch has been written
C20_OuterAfterFlush ==
    (cs.root # NoHash /\ cs.root \in cs.fresh) => Flushed /\ Durable(cs.root)

\* C21: whatever Insert and Delete calls a transaction has seen (overwrites,
\* deletes of keys it holds and of keys it does not, keys of all lengths),
\* Lookup(k) is the value of the last Insert at k that no Delete of k
\* followed, and nil for every other key
C21_MapRefinement ==
    txn.open =>
        \A k \in Keys : Lookup(heap, txn, k, storage) =
                            LookupResult(model[k], FALSE, FALSE)

\* the same with no Delete of a key the transaction did not hold
C21_PresentDeletesOnly ==
    (txn.open /\ ~hist.stray) =>
        \A k \in Keys : Lookup(heap, txn, k, storage) =
                            LookupResult(model[k], FALSE, FALSE)

\* the nodes of the tries and of the transaction
TrieNodes(H, trs, tx) ==
    Reachable(H, tx.root) \cup
        UNION {Reachable(H, trs[i].root) : i \in 1..Len(trs)}

\* a step leaves the tries, the transaction, every node of theirs and the
\* backing store as they were
ReadOnly ==
    /\ tries' = tries
    /\ txn' = txn
    /\ storage' = storage
    /\ batches' = batches
    /\ \A a \in TrieNodes(heap, tries, txn) : heap'[a] = heap[a]

\* C22: a Txn.Lookup, and every call of lookup a Trie.Get makes, leaves the
\* roots, the key, child, slots, value and hash cache of every node and the
\* backing store as they were, also when it resolves a hash reference; and
\* a Get that ends, whatever lookups ran between its calls of lookup,
\* returns what it returned had it run alone
C22_LookupReadOnly ==
    [][/\ (ReadStep \/ ReadBegin(StoreKeys) \/ TxnLookup(StoreKeys)) => ReadOnly
       /\ rd'.pc = "done" => rd'.v = rd'.alone]_vars

\* a Get has resolved a hash reference and has found the value of 32 bytes
\* in the backing store, a transaction being open
C22_Witness ==
    /\ rd.pc = "done"
    /\ rd.resolved
    /\ rd.v = Long
    /\ rd.alone = Long
    /\ txn.open

\* what every Trie returns for every key
Gets(H, trs, st) ==
    [i \in 1..Len(trs) |-> [k \in AllKeys |-> Get(H, trs[i], k, st)]]

\* C23: an Insert or a Delete, also one of the transaction that a Trie was
\* committed from, leaves what every committed Trie returns for every key
\* as it was
C23_CommittedImmutable ==
    [][(TxnInsert(Keys \X Values) \/ TxnDelete(Keys)) =>
          Gets(heap', tries', storage') = Gets(heap, tries, storage)]_vars

\* the elements of a sequence
Range(q) == {q[i] : i \in 1..Len(q)}

\* the event loop is through with event e
Handled(e) == \E i \in 1..Len(sam.done) : sam.done[i].ev = e

\* what has been published has been added to the SAMP; an event whose
\* marshalling, signing or AddMessage failed, or that has not got as far as
\* Publish, is not published; and the loop ends only when the subscription
\* is closed and every event sent has been gone through
PublishedAfterAdded ==
    /\ Range(sam.published) \subseteq Range(sam.samp)
    /\ \A i \in 1..Len(sam.done) :
          sam.done[i].outcome \in {"marshal", "sign", "add"} =>
              /\ sam.done[i].ev \notin Range(sam.published)
              /\ sam.done[i].outcome # "add" => sam.done[i].ev \notin Range(sam.samp)
    /\ sam.loop \in {"marshal", "sign", "add", "publish"} =>
          sam.ev \notin Range(sam.published)
    /\ \A i \in 1..Len(sam.done) :
          sam.done[i].outcome = "ok" <=> sam.done[i].ev \in Range(sam.published)
    /\ sam.loop = "end" =>
          /\ sam.closed
          /\ sam.chan = <<>>
          /\ \A e \in 1..sam.emitted : Handled(e)

\* C24: the event loop publishes the message of an event only when it has
\* added it to the SAMP, never publishes an event whose marshalling,
\* signing or AddMessage failed, and after every event, whatever failed
\* (Publish included), goes on with the events that follow: every event
\* the subscription was sent is gone through, and the loop ends only when
\* the subscription is closed
C24_EventLoopOrder ==
    /\ []PublishedAfterAdded
    /\ \A e \in 1..MaxEvents : (sam.emitted >= e) ~> Handled(e)

\* the loop has ended; AddMessage failed for the first event, and the
\* second was added and published after it
C24_Witness ==
    /\ sam.loop = "end"
    /\ sam.done = << [ev |-> 1, outcome |-> "add"], [ev |-> 2, outcome |-> "ok"] >>
    /\ sam.samp = <<2>>
    /\ sam.published = <<2>>

\* the loop has gone on after a Publish that failed
C24_WitnessPublish ==
    /\ sam.loop = "end"
    /\ sam.done = << [ev |-> 1, outcome |-> "publish"], [ev |-> 2, outcome |-> "ok"] >>
    /\ sam.samp = <<1, 2>>
    /\ sam.published = <<2>>

\* the text 'index:blockNumber' of the arguments SaveProgress is called with
Text(input) ==
    IF input = Params(0, 7) THEN <<"0", ":", "7">>
    ELSE <<"1", "0", ":", "1", "2">>

\* the last SaveProgress call has the local address, an input that decodes
\* and a write that succeeds, the payload type being the known one
Saved(s) ==
    /\ s.call.addr = LocalAddress
    /\ s.call.input.decodes
    /\ s.payloadType = ValidatorSetPayloadType
    /\ s.call.ok

\* storage holds the text of the last arguments written, and Prune has been
\* called once with the index of each of them, in turn, but for the call
\* that has written and not yet got to Prune
PrunedAsWritten ==
    /\ sam.db[LocalAddress] =
          IF sam.wrote = <<>> THEN NoEntry
          ELSE Entry(Text(sam.wrote[Len(sam.wrote)]))
    /\ sam.db[OtherAddress] = NoEntry
    /\ Len(sam.prunes) = Len(sam.wrote) - (IF sam.save.pc = "prune" THEN 1 ELSE 0)
    /\ \A i \in 1..Len(sam.prunes) : sam.prunes[i] = sam.wrote[i].index

\* C25: SaveProgress calls Prune only when it has written to storage. For
\* another contract address, an input that does not decode, an unknown
\* payload type or a write that fails, storage keeps what it held and Prune
\* is not called; otherwise storage holds 'index:blockNumber' and Prune is
\* called once, with that index; and a Start after it starts the event
\* tracker at that blockNumber (at the latest block if nothing was written)
C25_PruneAfterWrite ==
    /\ []PrunedAsWritten
    /\ [][/\ SaveProgress =>
                IF Saved(sam')
                THEN /\ sam'.db[LocalAddress] = Entry(Text(sam'.call.input))
                     /\ sam'.save = [pc |-> "prune", index |-> sam'.call.input.index]
                     /\ sam'.prunes = sam.prunes
                ELSE /\ sam'.db = sam.db
                     /\ sam'.prunes = sam.prunes
                     /\ sam'.save.pc = "idle"
          /\ SavePrune =>
                /\ sam'.db = sam.db
                /\ sam'.prunes = Append(sam.prunes, sam.call.input.index)
          /\ (Start /\ sam'.tracker.started) =>
                sam'.tracker.block =
                    IF sam.wrote = <<>> THEN LatestRootchainBlockNumber
                    ELSE BlockNumber(sam.wrote[Len(sam.wrote)].blockNumber)
       ]_vars

\* index 10 and blockNumber 12 were written and pruned, a later call with
\* other arguments failed at its write, and the Start after both started
\* the event tracker at block 12
C25_Witness ==
    /\ sam.wrote = <<Params(10, 12)>>
    /\ sam.saves = 2
    /\ sam.call = [addr |-> LocalAddress, input |-> Params(0, 7), ok |-> FALSE]
    /\ sam.db[LocalAddress] = Entry(<<"1", "0", ":", "1", "2">>)
    /\ sam.prunes = <<10>>
    /\ sam.tracker = [started |-> TRUE, block |-> BlockNumber(12)]

====
